---------------------------- MODULE Spec2Model ----------------------------
(***************************************************************************)
(* Model of the ZKMintContract Stylus contract                             *)
(* (stylus-contracts/src/lib.rs): the BN254 precompile backend, the        *)
(* Groth16 verifier and the mint gate with its nullifier, threshold and    *)
(* freshness policy.                                                       *)
(*                                                                         *)
(* Byte arrays are sequences of naturals 0..255, indexed from 1: the Rust  *)
(* index i is the TLA+ index i + 1.                                        *)
(***************************************************************************)
EXTENDS Integers, Sequences, FiniteSets, TLC

(***************************************************************************)
(* Bounds of the model.                                                    *)
(***************************************************************************)
\* U256 values are modelled modulo 2^UBits.
UBits == 10
\* The block timestamp never exceeds MaxTime.
MaxTime == 601
\* Addresses are 0..MaxAddr, 0 being Address::ZERO.
MaxAddr == 1

UMod == 2 ^ UBits
U256Max == UMod - 1

(***************************************************************************)
(* Byte helpers.                                                           *)
(***************************************************************************)
Bytes(n, b) == [i \in 1..n |-> b]

\* slice data[lo..hi) of the Rust code (0-based, hi exclusive)
Slice(data, lo, hi) == [i \in 1..(hi - lo) |-> data[lo + i]]

\* the array with the byte at Rust index i replaced by b
Patch(data, i, b) == [data EXCEPT ![i + 1] = b]

\* U256::to_be_bytes of a value below 2^16 (all the model's values are)
to_be_bytes(v) == Bytes(30, 0) \o <<(v \div 256) % 256, v % 256>>

(***************************************************************************)
(* PrecompileBackend: the local helpers.                                   *)
(***************************************************************************)
is_g1_zero(point) == \A i \in 1..Len(point) : point[i] = 0

is_scalar_zero(scalar) == \A i \in 1..Len(scalar) : scalar[i] = 0

\* the BN254 base-field prime, big-endian
p_bytes ==
    << 48, 100,  78, 114, 225,  49, 160,  41, 184,  80,  69, 182, 129, 129,  88,  93,
      151, 129, 106, 145, 104, 113, 202, 141,  60,  32, 140,  22, 216, 124, 253,  71 >>

\* An iteration of the subtraction loop that never carries a borrow to the
\* next byte.
NegStepNoBorrow(st, y_bytes, i) ==
    LET p_val == p_bytes[i + 1] - st.borrow
        y_val == y_bytes[i + 1]
    IN  IF p_val >= y_val
        THEN [negated |-> Patch(st.negated, 32 + i, (p_val - y_val) % 256),
              borrow  |-> 0]
        ELSE [negated |-> Patch(st.negated, 32 + i, (256 + p_val - y_val) % 256),
              borrow  |-> 0]

\* One iteration of the subtraction loop at Rust index i: st holds the array
\* being written (negated) and the borrow carried from the byte to the right.
NegStep(st, y_bytes, i) ==
    LET p_val == p_bytes[i + 1] - st.borrow
        y_val == y_bytes[i + 1]
    IN  IF p_val >= y_val
        THEN [negated |-> Patch(st.negated, 32 + i, (p_val - y_val) % 256),
              borrow  |-> 0]
        ELSE [negated |-> Patch(st.negated, 32 + i, (256 + p_val - y_val) % 256),
              borrow  |-> 1]

\* The same iteration with the operands exchanged: y - p in place of p - y.
NegStepSwapped(st, y_bytes, i) ==
    LET p_val == y_bytes[i + 1] - st.borrow
        y_val == p_bytes[i + 1]
    IN  IF p_val >= y_val
        THEN [negated |-> Patch(st.negated, 32 + i, (p_val - y_val) % 256),
              borrow  |-> 0]
        ELSE [negated |-> Patch(st.negated, 32 + i, (256 + p_val - y_val) % 256),
              borrow  |-> 1]

\* for i in (0..32).rev(): the iterations i = 31, 30, ..., k
RECURSIVE NegLoop(_, _, _)
NegLoop(st, y_bytes, k) ==
    IF k > 31 THEN st
    ELSE NegStep(NegLoop(st, y_bytes, k + 1), y_bytes, k)

RECURSIVE NegLoopSwapped(_, _, _)
NegLoopSwapped(st, y_bytes, k) ==
    IF k > 31 THEN st
    ELSE NegStepSwapped(NegLoopSwapped(st, y_bytes, k + 1), y_bytes, k)

negate_g1_point_swapped(point) ==
    IF is_g1_zero(point) THEN point
    ELSE NegLoopSwapped([negated |-> point, borrow |-> 0],
                        Slice(point, 32, 64), 0).negated

negate_g1_point(point) ==
    IF is_g1_zero(point) THEN point
    ELSE NegLoop([negated |-> point, borrow |-> 0], Slice(point, 32, 64), 0).negated


(***************************************************************************)
(* PrecompileBackend: the delegated calls.  A reply of RawCall::call is    *)
(* [ok, data]: ok = FALSE is Err(_), otherwise data is the returned bytes. *)
(* A backend operation returns [ok |-> TRUE, val, req] or                  *)
(* [ok |-> FALSE, err, req]; req is the calldata sent, <<>> when no call   *)
(* was made.                                                               *)
(***************************************************************************)
EC_ADD_PRECOMPILE == 6
EC_MUL_PRECOMPILE == 7
EC_PAIRING_PRECOMPILE == 8

Ok(v) == [ok |-> TRUE, val |-> v]
Err(e) == [ok |-> FALSE, err |-> e]

ec_add(a, b, reply) ==
    IF is_g1_zero(a) THEN [ok |-> TRUE, val |-> b, req |-> <<>>]
    ELSE IF is_g1_zero(b) THEN [ok |-> TRUE, val |-> a, req |-> <<>>]
    ELSE LET calldata == a \o b
         IN  IF ~reply.ok
             THEN [ok |-> FALSE, err |-> "ecAdd precompile failed", req |-> calldata]
             ELSE IF Len(reply.data) # 64
             THEN [ok |-> FALSE, err |-> "Invalid ecAdd result length", req |-> calldata]
             ELSE [ok |-> TRUE, val |-> reply.data, req |-> calldata]

\* only a zero scalar answered locally: the identity point is sent to the precompile
ec_mul_zero_scalar_only(scalar, point, reply) ==
    IF is_scalar_zero(scalar)
    THEN [ok |-> TRUE, val |-> Bytes(64, 0), req |-> <<>>]
    ELSE LET calldata == point \o scalar
         IN  IF ~reply.ok
             THEN [ok |-> FALSE, err |-> "ecMul precompile failed", req |-> calldata]
             ELSE IF Len(reply.data) # 64
             THEN [ok |-> FALSE, err |-> "Invalid ecMul result length", req |-> calldata]
             ELSE [ok |-> TRUE, val |-> reply.data, req |-> calldata]

ec_mul(scalar, point, reply) ==
    IF is_scalar_zero(scalar) \/ is_g1_zero(point)
    THEN [ok |-> TRUE, val |-> Bytes(64, 0), req |-> <<>>]
    ELSE LET calldata == point \o scalar
         IN  IF ~reply.ok
             THEN [ok |-> FALSE, err |-> "ecMul precompile failed", req |-> calldata]
             ELSE IF Len(reply.data) # 64
             THEN [ok |-> FALSE, err |-> "Invalid ecMul result length", req |-> calldata]
             ELSE [ok |-> TRUE, val |-> reply.data, req |-> calldata]

(***************************************************************************)
(* ZKProof and the compiled-in verifying key.                              *)
(***************************************************************************)
\* every input of at least 256 bytes accepted
ZKProof_deserialize_min_length(data) ==
    IF Len(data) < 256 THEN Err("Invalid proof length")
    ELSE Ok([a |-> Slice(data, 0, 64),
             b |-> Slice(data, 64, 192),
             c |-> Slice(data, 192, 256)])

ZKProof_deserialize(data) ==
    IF Len(data) # 256 THEN Err("Invalid proof length")
    ELSE Ok([a |-> Slice(data, 0, 64),
             b |-> Slice(data, 64, 192),
             c |-> Slice(data, 192, 256)])

(***************************************************************************)
(* usize arithmetic.  A usize value is [hi, lo], standing for              *)
(* hi * 2^16 + lo with lo < 2^16.  A build is [usize, overflow_checks]:    *)
(* the width of usize (32 on the wasm32 target of a Stylus contract, 64 on *)
(* a native build), and whether an overflowing + or * panics (a debug      *)
(* build) or wraps (a release build).  The values met here stay below      *)
(* 2^40, so only a 32-bit usize ever wraps.                                *)
(***************************************************************************)
Limb == 2 ^ 16

Builds == [usize : {32, 64}, overflow_checks : BOOLEAN]

Panic(m) == [ok |-> FALSE, panic |-> m]

\* u32::from_be_bytes([b0, b1, b2, b3]) as usize
u32_from_be_bytes(b0, b1, b2, b3) == [hi |-> b0 * 256 + b1, lo |-> b2 * 256 + b3]

\* the hi part of a result, and whether it left the width
usize_wrap(hi, build) ==
    IF build.usize = 32
    THEN [hi |-> hi % Limb, overflow |-> hi >= Limb]
    ELSE [hi |-> hi, overflow |-> FALSE]

\* v * k for a small k: [hi, lo, overflow]
usize_mul(v, k, build) ==
    LET lo == v.lo * k
        w == usize_wrap(v.hi * k + (lo \div Limb), build)
    IN  [hi |-> w.hi, lo |-> lo % Limb, overflow |-> w.overflow]

\* k + v for a small k: [hi, lo, overflow]
usize_add(k, v, build) ==
    LET lo == k + v.lo
        w == usize_wrap(v.hi + (lo \div Limb), build)
    IN  [hi |-> w.hi, lo |-> lo % Limb, overflow |-> w.overflow]

\* n < v for a length n below 2^16
usize_less(n, v) == v.hi > 0 \/ n < v.lo

\* Vec::<G1Point>::with_capacity(n) panics with "capacity overflow" when
\* n * 64 bytes exceed isize::MAX
capacity_overflow(n, build) == build.usize = 32 /\ n.hi >= 2 ^ 9

VerifyingKey_deserialize(data, build) ==
    IF Len(data) < 452 THEN Err("Invalid verifying key length")
    ELSE LET alpha_g1 == Slice(data, 0, 64)
             beta_g2 == Slice(data, 64, 192)
             gamma_g2 == Slice(data, 192, 320)
             delta_g2 == Slice(data, 320, 448)
         IN  IF Len(data) < 448 + 4 THEN Err("Invalid gamma ABC length")
             ELSE LET gamma_abc_len ==
                          u32_from_be_bytes(data[449], data[450], data[451], data[452])
                      offset == 452
                      product == usize_mul(gamma_abc_len, 64, build)
                      sum == usize_add(offset, product, build)
                  IN  IF product.overflow /\ build.overflow_checks
                      THEN Panic("attempt to multiply with overflow")
                      ELSE IF sum.overflow /\ build.overflow_checks
                      THEN Panic("attempt to add with overflow")
                      ELSE IF usize_less(Len(data), sum)
                      THEN Err("Invalid gamma ABC points length")
                      ELSE IF capacity_overflow(gamma_abc_len, build)
                      THEN Panic("capacity overflow")
                      ELSE IF gamma_abc_len.hi > 0
                              \/ Len(data) < offset + 64 * gamma_abc_len.lo
                      THEN Panic("range end index out of range for slice")
                      ELSE Ok([alpha_g1 |-> alpha_g1,
                               beta_g2 |-> beta_g2,
                               gamma_g2 |-> gamma_g2,
                               delta_g2 |-> delta_g2,
                               gamma_abc_g1 |->
                                   [k \in 1..gamma_abc_len.lo |->
                                       Slice(data, offset + 64 * (k - 1),
                                             offset + 64 * k)]])

\* the G1 point (x, y) of two small coordinates
G1(x, y) == Patch(Bytes(32, 0), 31, x) \o Patch(Bytes(32, 0), 31, y)

\* a G2 point told apart by its last byte
G2(k) == Patch(Bytes(128, 0), 127, k)

\* get_verifying_key() of the generated verifying_key.rs: a fixed key with n
\* gamma_abc_g1 points, all different
VerifyingKeyOf(n) ==
    [alpha_g1 |-> G1(1, 2),
     beta_g2  |-> G2(11),
     gamma_g2 |-> G2(12),
     delta_g2 |-> G2(13),
     gamma_abc_g1 |-> [k \in 1..n |-> G1(k, k + 1)]]

\* the keys a deployment may have been built with: 7 points for the 6 public
\* signals of the circuit, or a key of another circuit
VerifyingKeys == { VerifyingKeyOf(n) : n \in {0, 1, 7} }

(***************************************************************************)
(* Storage mappings: a function on the keys holding a non-default value.   *)
(***************************************************************************)
MapGet(m, k, default) == IF k \in DOMAIN m THEN m[k] ELSE default

MapSet(m, k, v, default) ==
    IF v = default
    THEN [x \in DOMAIN m \ {k} |-> m[x]]
    ELSE [x \in DOMAIN m \cup {k} |-> IF x = k THEN v ELSE m[x]]

EmptyMap == [x \in {} |-> 0]

(***************************************************************************)
(* U256 arithmetic, modulo 2^UBits.                                        *)
(***************************************************************************)
U256Sub(a, b) == (a - b) % UMod
U256Add(a, b) == (a + b) % UMod

MAX_PROOF_AGE == 300

VARIABLES
    owner, next_token_id, token_owners, token_balances,  \* sol_storage
    used_nullifiers, min_required_balance,               \* sol_storage
    vk,         \* the compiled-in verifying key
    now,        \* block_timestamp of the current block
    pc,         \* where the running call stands; "idle" between calls
    frame,      \* the locals of the running call
    call,       \* the call of the current transaction, with the state it met
    result,     \* what that call returned; "pending" while it runs
    mints,      \* history: the successful mints, in order
    stale,      \* history: the proof timestamps of the mints refused as expired
    nin, nout, nout2, npc   \* a pure function applied on its own: its input,
                            \* its result, the result of a second application,
                            \* and how far it got

storage == <<owner, next_token_id, token_owners, token_balances,
             used_nullifiers, min_required_balance>>
nvars == <<nin, nout, nout2, npc>>
cvars == <<owner, next_token_id, token_owners, token_balances, used_nullifiers,
           min_required_balance, vk, now, pc, frame, call, result, mints, stale>>
vars == <<owner, next_token_id, token_owners, token_balances, used_nullifiers,
          min_required_balance, vk, now, pc, frame, call, result, mints, stale,
          nin, nout, nout2, npc>>

\* the token and nullifier state, as one value
Snapshot ==
    [owner |-> owner, next_token_id |-> next_token_id, token_owners |-> token_owners,
     token_balances |-> token_balances, used_nullifiers |-> used_nullifiers,
     min_required_balance |-> min_required_balance]


(***************************************************************************)
(* The values calls are made with.                                         *)
(***************************************************************************)
Addresses == 0..MaxAddr
Nullifiers == {0, 1}
Thresholds == {10, 20}
Timestamps == {0, 300, 301, U256Max}

\* six public signals [nullifier, min_required_balance, token_contract_hash,
\* user_address_hash, timestamp, oracle_commitment]
Six(n, b, t) == <<n, b, 3, 4, t, 5>>

MintInputs ==
    { Six(n, b, t) : n \in Nullifiers, b \in Thresholds, t \in Timestamps }
    \cup { SubSeq(Six(n, b, t), 1, 5) : n \in Nullifiers, b \in Thresholds, t \in {0, 300} }
    \cup { Six(n, b, t) \o <<6>> : n \in Nullifiers, b \in Thresholds, t \in {1} }

VerifyInputs ==
    { <<>>, <<1>>, Six(0, 10, 1), Six(1, 20, 302), Six(1, 10, 0) \o <<6>> }

\* a 256-byte proof a = (1, 2), c = (1, 3), and one a byte short
GoodProof == G1(1, 2) \o G2(9) \o G1(1, 3)
ShortProof == SubSeq(GoodProof, 1, 255)
Proofs == {GoodProof, ShortProof}

\* replies of the ecMul and of the ecAdd precompile: a failed call, a point
\* (not the same for the two, nor a point of the key), a reply one byte short
CallFailed == [ok |-> FALSE, data |-> <<>>]
EcMulReplies ==
    { CallFailed,
      [ok |-> TRUE, data |-> G1(8, 9)],
      [ok |-> TRUE, data |-> Bytes(63, 1)] }
EcAddReplies ==
    { CallFailed,
      [ok |-> TRUE, data |-> G1(5, 6)],
      [ok |-> TRUE, data |-> Bytes(63, 1)] }
G1Replies == EcMulReplies \cup EcAddReplies

\* replies of the pairing precompile: a failed call, 32 bytes ending in 1, 0
\* or 2, and replies of 0, 31 and 33 bytes
PairingReplies ==
    { CallFailed,
      [ok |-> TRUE, data |-> Patch(Bytes(32, 0), 31, 1)],
      [ok |-> TRUE, data |-> Bytes(32, 0)],
      [ok |-> TRUE, data |-> Patch(Bytes(32, 0), 31, 2)],
      [ok |-> TRUE, data |-> <<>>],
      [ok |-> TRUE, data |-> Bytes(31, 1)],
      [ok |-> TRUE, data |-> Bytes(33, 1)] }

\* sendMessage of the CCIP sender returns a message id or reverts
SendReplies == { [ok |-> TRUE, data |-> Bytes(32, 7)], CallFailed }

(***************************************************************************)
(* mint_with_zk_proof: the checks made before the proof is verified.       *)
(* [err, underflow]: err = "" when every check passed; underflow tells     *)
(* whether current_time - proof_timestamp was evaluated below zero.        *)
(***************************************************************************)
\* the age computed before the two timestamps are compared
FreshnessAgeFirst(current_time, proof_timestamp) ==
    LET max_age == MAX_PROOF_AGE
        age == U256Sub(current_time, proof_timestamp)
    IN  IF age > max_age
        THEN [err |-> "Proof expired - timestamp too old",
              underflow |-> current_time < proof_timestamp]
        ELSE IF current_time > proof_timestamp
        THEN [err |-> "", underflow |-> current_time < proof_timestamp]
        ELSE [err |-> "Invalid timestamp - proof from future",
              underflow |-> current_time < proof_timestamp]

\* the age cut to its low nine bits before it is compared
FreshnessTruncatedAge(current_time, proof_timestamp) ==
    LET max_age == MAX_PROOF_AGE
    IN  IF current_time > proof_timestamp
        THEN LET age == U256Sub(current_time, proof_timestamp) % (2 ^ 9)
             IN  IF age > max_age
                 THEN [err |-> "Proof expired - timestamp too old",
                       underflow |-> current_time < proof_timestamp]
                 ELSE [err |-> "", underflow |-> current_time < proof_timestamp]
        ELSE [err |-> "Invalid timestamp - proof from future", underflow |-> FALSE]

Freshness(current_time, proof_timestamp) ==
    LET max_age == MAX_PROOF_AGE
    IN  IF current_time > proof_timestamp
        THEN LET age == U256Sub(current_time, proof_timestamp)
             IN  IF age > max_age
                 THEN [err |-> "Proof expired - timestamp too old",
                       underflow |-> current_time < proof_timestamp]
                 ELSE [err |-> "", underflow |-> current_time < proof_timestamp]
        ELSE [err |-> "Invalid timestamp - proof from future", underflow |-> FALSE]

\* the nullifier never looked up
MintPolicyNoReplayCheck(public_inputs, required_min_balance, used, current_time) ==
    IF Len(public_inputs) # 6
    THEN [err |-> "Invalid number of public inputs", underflow |-> FALSE]
    ELSE IF public_inputs[2] # required_min_balance
    THEN [err |-> "Invalid min_required_balance in proof - does not match contract requirement",
          underflow |-> FALSE]
    ELSE Freshness(current_time, public_inputs[5])

\* only a threshold below the required one is refused
MintPolicyLowerOnly(public_inputs, required_min_balance, used, current_time) ==
    IF Len(public_inputs) # 6
    THEN [err |-> "Invalid number of public inputs", underflow |-> FALSE]
    ELSE IF public_inputs[2] < required_min_balance
    THEN [err |-> "Invalid min_required_balance in proof - does not match contract requirement",
          underflow |-> FALSE]
    ELSE IF MapGet(used, public_inputs[1], FALSE)
    THEN [err |-> "Nullifier already used - proof replay detected", underflow |-> FALSE]
    ELSE Freshness(current_time, public_inputs[5])

\* the nullifier looked up before the threshold is compared
MintPolicyReplayFirst(public_inputs, required_min_balance, used, current_time) ==
    IF Len(public_inputs) # 6
    THEN [err |-> "Invalid number of public inputs", underflow |-> FALSE]
    ELSE IF MapGet(used, public_inputs[1], FALSE)
    THEN [err |-> "Nullifier already used - proof replay detected", underflow |-> FALSE]
    ELSE IF public_inputs[2] # required_min_balance
    THEN [err |-> "Invalid min_required_balance in proof - does not match contract requirement",
          underflow |-> FALSE]
    ELSE Freshness(current_time, public_inputs[5])

MintPolicy(public_inputs, required_min_balance, used, current_time) ==
    IF Len(public_inputs) # 6
    THEN [err |-> "Invalid number of public inputs", underflow |-> FALSE]
    ELSE LET nullifier == public_inputs[1]
             min_balance_from_proof == public_inputs[2]
             proof_timestamp == public_inputs[5]
         IN  IF min_balance_from_proof # required_min_balance
             THEN [err |-> "Invalid min_required_balance in proof - does not match contract requirement",
                   underflow |-> FALSE]
             ELSE IF MapGet(used, nullifier, FALSE)
             THEN [err |-> "Nullifier already used - proof replay detected",
                   underflow |-> FALSE]
             ELSE Freshness(current_time, proof_timestamp)

(***************************************************************************)
(* groth16_verify: the length check, and the reading of the pairing reply. *)
(***************************************************************************)
\* only inputs in excess of the key's points refused
WrongInputCountExcessOnly(scalar_inputs, key) == Len(scalar_inputs) + 1 > Len(key.gamma_abc_g1)

WrongInputCount(scalar_inputs, key) == Len(scalar_inputs) + 1 # Len(key.gamma_abc_g1)

\* the pair of proof.c put before the pair of vk_x
pairing_calldata_c_before_vk_x(proof, key, vk_x) ==
    LET neg_alpha == negate_g1_point(key.alpha_g1)
        neg_vk_x == negate_g1_point(vk_x)
        neg_c == negate_g1_point(proof.c)
    IN  proof.a \o proof.b \o neg_alpha \o key.beta_g2
        \o neg_c \o key.delta_g2 \o neg_vk_x \o key.gamma_g2

pairing_calldata(proof, key, vk_x) ==
    LET neg_alpha == negate_g1_point(key.alpha_g1)
        neg_vk_x == negate_g1_point(vk_x)
        neg_c == negate_g1_point(proof.c)
    IN  proof.a \o proof.b \o neg_alpha \o key.beta_g2
        \o neg_vk_x \o key.gamma_g2 \o neg_c \o key.delta_g2

pairing_result(reply) ==
    IF ~reply.ok THEN Err("Pairing precompile failed")
    ELSE Ok(IF Len(reply.data) = 32 THEN reply.data[32] = 1 ELSE FALSE)

(***************************************************************************)
(* mint_with_zk_proof: the writes made once sendMessage has returned.      *)
(***************************************************************************)
\* the nullifier left unmarked
MintWritesUnmarked(s, to, nullifier) ==
    LET token_id == s.next_token_id
        current_balance == MapGet(s.token_balances, to, 0)
    IN  [s EXCEPT !.token_owners = MapSet(@, token_id, to, 0),
                  !.token_balances = MapSet(@, to, U256Add(current_balance, 1), 0),
                  !.next_token_id = U256Add(token_id, 1)]

\* the balance set to one instead of raised by one
MintWritesBalanceOverwritten(s, to, nullifier) ==
    LET token_id == s.next_token_id
    IN  [s EXCEPT !.used_nullifiers = MapSet(@, nullifier, TRUE, FALSE),
                  !.token_owners = MapSet(@, token_id, to, 0),
                  !.token_balances = MapSet(@, to, 1, 0),
                  !.next_token_id = U256Add(token_id, 1)]

MintWrites(s, to, nullifier) ==
    LET token_id == s.next_token_id
        current_balance == MapGet(s.token_balances, to, 0)
    IN  [s EXCEPT !.used_nullifiers = MapSet(@, nullifier, TRUE, FALSE),
                  !.token_owners = MapSet(@, token_id, to, 0),
                  !.token_balances = MapSet(@, to, U256Add(current_balance, 1), 0),
                  !.next_token_id = U256Add(token_id, 1)]

\* the nullifier marked before sendMessage is known to have succeeded
AfterSendMarkedEarly(s, to, nullifier, reply) ==
    IF ~reply.ok
    THEN [ret |-> Err("sendMessage failed"),
          st |-> [s EXCEPT !.used_nullifiers = MapSet(@, nullifier, TRUE, FALSE)]]
    ELSE [ret |-> Ok(s.next_token_id), st |-> MintWrites(s, to, nullifier)]

\* [ret, st]: what the call returns and the storage it leaves
AfterSend(s, to, nullifier, reply) ==
    IF ~reply.ok
    THEN [ret |-> Err("sendMessage failed"), st |-> s]
    ELSE [ret |-> Ok(s.next_token_id), st |-> MintWrites(s, to, nullifier)]

(***************************************************************************)
(* verify_proof up to the loop of groth16_verify: Err(_), or Ok of the     *)
(* locals the loop starts with.                                            *)
(***************************************************************************)
\* verify_proof refusing a used nullifier as the mint does
verify_proof_replay_checked(proof_data, public_inputs, key) ==
    LET proof == ZKProof_deserialize(proof_data)
        scalar_inputs == [k \in 1..Len(public_inputs) |-> to_be_bytes(public_inputs[k])]
    IN  IF ~proof.ok THEN Err(proof.err)
        ELSE IF Len(public_inputs) > 0 /\ MapGet(used_nullifiers, public_inputs[1], FALSE)
        THEN Err("Nullifier already used - proof replay detected")
        ELSE IF WrongInputCount(scalar_inputs, key)
        THEN Err("Wrong number of public inputs")
        ELSE Ok([proof |-> proof.val, scalar_inputs |-> scalar_inputs,
                 vk_x |-> key.gamma_abc_g1[1]])

verify_proof(proof_data, public_inputs, key) ==
    LET proof == ZKProof_deserialize(proof_data)
        scalar_inputs == [k \in 1..Len(public_inputs) |-> to_be_bytes(public_inputs[k])]
    IN  IF ~proof.ok THEN Err(proof.err)
        ELSE IF WrongInputCount(scalar_inputs, key)
        THEN Err("Wrong number of public inputs")
        ELSE Ok([proof |-> proof.val, scalar_inputs |-> scalar_inputs,
                 vk_x |-> key.gamma_abc_g1[1]])

(***************************************************************************)
(* The state machine.                                                      *)
(***************************************************************************)
NoFrame ==
    [op |-> "none", to |-> 0, nullifier |-> 0, proof |-> <<>>, scalar_inputs |-> <<>>,
     i |-> 0, vk_x |-> <<>>, term |-> <<>>]

NoCall ==
    [op |-> "none", to |-> 0, proof_data |-> <<>>, public_inputs |-> <<>>,
     caller |-> 0, new_min_balance |-> 0, at |-> <<>>, minted |-> {}, stale |-> {}]

\* state: "none", "pending" or "done"; ret: what was returned; reqs: the
\* precompile requests of the call, in order, as [pre, len]; calldata and
\* reply: the last request and the reply to it; underflow: whether the age
\* subtraction went below zero; reentry: "reverted" once a call made into the
\* contract while this one was running has been turned away
NoResult ==
    [state |-> "none", ret |-> Err(""), reqs |-> <<>>, calldata |-> <<>>,
     reply |-> CallFailed, underflow |-> FALSE, reentry |-> "none"]

constructor(new_owner, new_min_required_balance) ==
    [owner |-> new_owner, next_token_id |-> 1, token_owners |-> EmptyMap,
     token_balances |-> EmptyMap, used_nullifiers |-> EmptyMap,
     min_required_balance |-> new_min_required_balance]

\* The view functions, on the storage s. A key token_owners never wrote reads
\* as Address::ZERO, and so does a key it wrote Address::ZERO to.
balance_of(s, holder) == MapGet(s.token_balances, holder, 0)

owner_of(s, token_id) ==
    LET holder == MapGet(s.token_owners, token_id, 0)
    IN  IF holder = 0
        THEN Err("Token does not exist")
        ELSE Ok(holder)

\* the storage becomes s
Store(s) ==
    /\ owner' = s.owner
    /\ next_token_id' = s.next_token_id
    /\ token_owners' = s.token_owners
    /\ token_balances' = s.token_balances
    /\ used_nullifiers' = s.used_nullifiers
    /\ min_required_balance' = s.min_required_balance

\* the storage is s
Stored(s) ==
    /\ owner = s.owner
    /\ next_token_id = s.next_token_id
    /\ token_owners = s.token_owners
    /\ token_balances = s.token_balances
    /\ used_nullifiers = s.used_nullifiers
    /\ min_required_balance = s.min_required_balance

Init ==
    /\ \E m \in Thresholds : Stored(constructor(1, m))
    /\ vk \in VerifyingKeys
    /\ now = 0
    /\ pc = "idle"
    /\ frame = NoFrame
    /\ call = NoCall
    /\ result = NoResult
    /\ mints = <<>>
    /\ stale = {}
    /\ nin = <<>> /\ nout = <<>> /\ nout2 = <<>> /\ npc = "unused"

\* the call returns ret; r is the record of the call so far
Return(ret, r) ==
    /\ pc' = "idle"
    /\ frame' = NoFrame
    /\ result' = [r EXCEPT !.state = "done", !.ret = ret]

\* the record r after a backend operation that sent b.req (if any) and got reply
Sent(r, pre, b, reply) ==
    IF b.req = <<>> THEN r
    ELSE [r EXCEPT !.reqs = Append(@, [pre |-> pre, len |-> Len(b.req)]),
                   !.calldata = b.req,
                   !.reply = reply]

\* verify_proof is entered, by a call of its own or from mint_with_zk_proof
EnterVerify(op, to, proof_data, public_inputs, r) ==
    LET v == verify_proof(proof_data, public_inputs, vk)
    IN  IF ~v.ok THEN Return(Err(v.err), r)
        ELSE /\ pc' = IF Len(v.val.scalar_inputs) = 0 THEN "pairing" ELSE "ec_mul"
             /\ frame' = [op |-> op, to |-> to,
                          nullifier |-> IF op = "mint_with_zk_proof"
                                        THEN public_inputs[1] ELSE 0,
                          proof |-> v.val.proof,
                          scalar_inputs |-> v.val.scalar_inputs,
                          i |-> 0, vk_x |-> v.val.vk_x, term |-> <<>>]
             /\ result' = r

VerifyProofCall(proof_data, public_inputs) ==
    /\ pc = "idle"
    /\ call = NoCall
    /\ call' = [NoCall EXCEPT !.op = "verify_proof", !.proof_data = proof_data,
                              !.public_inputs = public_inputs, !.at = Snapshot,
                              !.minted = {mints[k].nullifier : k \in 1..Len(mints)}]
    /\ EnterVerify("verify_proof", 0, proof_data, public_inputs,
                   [NoResult EXCEPT !.state = "pending"])
    /\ UNCHANGED <<storage, vk, now, mints, stale, nvars>>

MintCall(to, proof_data, public_inputs) ==
    /\ pc = "idle"
    /\ call = NoCall
    /\ call' = [NoCall EXCEPT !.op = "mint_with_zk_proof", !.to = to,
                              !.proof_data = proof_data,
                              !.public_inputs = public_inputs, !.at = Snapshot,
                              !.minted = {mints[k].nullifier : k \in 1..Len(mints)},
                              !.stale = stale]
    /\ LET policy == MintPolicy(public_inputs, min_required_balance,
                                used_nullifiers, now)
           r == [NoResult EXCEPT !.state = "pending", !.underflow = policy.underflow]
       IN  /\ IF policy.err # "" THEN Return(Err(policy.err), r)
              ELSE EnterVerify("mint_with_zk_proof", to, proof_data, public_inputs, r)
           /\ stale' = IF policy.err = "Proof expired - timestamp too old"
                       THEN stale \cup {public_inputs[5]}
                       ELSE stale
    /\ UNCHANGED <<storage, vk, now, mints, nvars>>

\* groth16_verify, loop body, first half: ec_mul of input i
EcMul ==
    /\ pc = "ec_mul"
    /\ \E reply \in EcMulReplies :
        LET i == frame.i
        IN  IF ~(i + 1 < Len(vk.gamma_abc_g1))
            THEN /\ pc' = IF i + 1 < Len(frame.scalar_inputs) THEN "ec_mul" ELSE "pairing"
                 /\ frame' = [frame EXCEPT !.i = i + 1]
                 /\ result' = result
            ELSE LET b == ec_mul(frame.scalar_inputs[i + 1], vk.gamma_abc_g1[i + 2], reply)
                     r == Sent(result, EC_MUL_PRECOMPILE, b, reply)
                 IN  IF ~b.ok THEN Return(Err(b.err), r)
                     ELSE /\ pc' = "ec_add"
                          /\ frame' = [frame EXCEPT !.term = b.val]
                          /\ result' = r
    /\ UNCHANGED <<storage, vk, now, call, mints, stale, nvars>>

\* groth16_verify, loop body, second half: ec_add of the term to vk_x
EcAdd ==
    /\ pc = "ec_add"
    /\ \E reply \in EcAddReplies :
        LET i == frame.i
            b == ec_add(frame.vk_x, frame.term, reply)
            r == Sent(result, EC_ADD_PRECOMPILE, b, reply)
        IN  IF ~b.ok THEN Return(Err(b.err), r)
            ELSE /\ pc' = IF i + 1 < Len(frame.scalar_inputs) THEN "ec_mul" ELSE "pairing"
                 /\ frame' = [frame EXCEPT !.vk_x = b.val, !.i = i + 1]
                 /\ result' = r
    /\ UNCHANGED <<storage, vk, now, call, mints, stale, nvars>>

\* groth16_verify, the pairing check, and what its caller makes of it
Pairing ==
    /\ pc = "pairing"
    /\ \E reply \in PairingReplies :
        LET calldata == pairing_calldata(frame.proof, vk, frame.vk_x)
            b == pairing_result(reply)
            r == Sent(result, EC_PAIRING_PRECOMPILE, [req |-> calldata], reply)
        IN  IF ~b.ok THEN Return(Err(b.err), r)
            ELSE IF frame.op = "verify_proof" THEN Return(Ok(b.val), r)
            ELSE IF ~b.val THEN Return(Err("Invalid ZK proof"), r)
            ELSE /\ pc' = "send_message"
                 /\ frame' = frame
                 /\ result' = r
    /\ UNCHANGED <<storage, vk, now, call, mints, stale, nvars>>

\* mint_with_zk_proof from the return of sendMessage to its own return
SendMessage ==
    /\ pc = "send_message"
    /\ \E reply \in SendReplies :
        LET a == AfterSend(Snapshot, frame.to, frame.nullifier, reply)
        IN  /\ Store(a.st)
            /\ mints' = IF a.ret.ok
                        THEN Append(mints, [nullifier |-> frame.nullifier,
                                            to |-> frame.to, token_id |-> a.ret.val])
                        ELSE mints
            /\ Return(a.ret, result)
    /\ UNCHANGED <<vk, now, call, stale, nvars>>

\* The entrypoint of a contract built without re-entrancy: a call that
\* arrives while a call of the contract is running reverts before any code
\* of the contract runs.
entrypoint_reverts(msg_reentrant) == msg_reentrant

\* While sendMessage is being dispatched the CCIP sender, or a contract it
\* calls, calls back into the contract: the call is turned away.
Reenter ==
    /\ pc = "send_message"
    /\ result.reentry = "none"
    /\ entrypoint_reverts(pc # "idle")
    /\ result' = [result EXCEPT !.reentry = "reverted"]
    /\ UNCHANGED <<storage, vk, now, pc, frame, call, mints, stale, nvars>>

\* the owner check left out
set_min_required_balance_unchecked(s, caller, new_min_balance) ==
    [ret |-> Ok(<<>>), st |-> [s EXCEPT !.min_required_balance = new_min_balance]]

set_min_required_balance(s, caller, new_min_balance) ==
    IF caller # s.owner
    THEN [ret |-> Err("Only owner can set_min_required_balance"), st |-> s]
    ELSE [ret |-> Ok(<<>>), st |-> [s EXCEPT !.min_required_balance = new_min_balance]]

SetMinRequiredBalanceCall(caller, new_min_balance) ==
    /\ pc = "idle"
    /\ call = NoCall
    /\ call' = [NoCall EXCEPT !.op = "set_min_required_balance", !.caller = caller,
                              !.new_min_balance = new_min_balance, !.at = Snapshot,
                              !.minted = {mints[k].nullifier : k \in 1..Len(mints)}]
    /\ LET a == set_min_required_balance(Snapshot, caller, new_min_balance)
       IN  /\ Store(a.st)
           /\ Return(a.ret, [NoResult EXCEPT !.state = "pending"])
    /\ UNCHANGED <<vk, now, mints, stale, nvars>>

\* The next transaction, in the same block or in a later one (the timestamp
\* advances): call and result describe one transaction and are dropped.
NextTransaction ==
    /\ pc = "idle"
    /\ \E d \in {0, 300, 301} :
        /\ d = 0 => call # NoCall
        /\ now + d <= MaxTime
        /\ now' = now + d
    /\ call' = NoCall
    /\ result' = NoResult
    /\ UNCHANGED <<storage, vk, pc, frame, mints, stale, nvars>>

Mint == \E to \in Addresses, proof_data \in Proofs, public_inputs \in MintInputs :
            MintCall(to, proof_data, public_inputs)

Verify == \E proof_data \in Proofs, public_inputs \in VerifyInputs :
            VerifyProofCall(proof_data, public_inputs)

SetMin == \E caller \in Addresses, new_min_balance \in Thresholds :
            SetMinRequiredBalanceCall(caller, new_min_balance)

Next ==
    \/ Mint \/ Verify \/ SetMin
    \/ EcMul \/ EcAdd \/ Pairing \/ SendMessage \/ Reenter
    \/ NextTransaction

Spec == Init /\ [][Next]_vars

(***************************************************************************)
(* Properties of the contract.                                             *)
(***************************************************************************)
IsMint == call.op = "mint_with_zk_proof"
IsVerify == call.op = "verify_proof"
Done == result.state = "done"

ErrCount == "Invalid number of public inputs"
ErrThreshold == "Invalid min_required_balance in proof - does not match contract requirement"
ErrReplay == "Nullifier already used - proof replay detected"
ErrExpired == "Proof expired - timestamp too old"
ErrFuture == "Invalid timestamp - proof from future"
ErrProofLength == "Invalid proof length"
ErrKeyCount == "Wrong number of public inputs"
ErrInvalidProof == "Invalid ZK proof"
BackendErrors ==
    { "ecAdd precompile failed", "Invalid ecAdd result length",
      "ecMul precompile failed", "Invalid ecMul result length",
      "Pairing precompile failed" }

Failed(e) == ~result.ret.ok /\ result.ret.err = e

\* the mint call carried six inputs, the stored threshold and an unused nullifier
SixInputs == Len(call.public_inputs) = 6
ThresholdMatches == call.public_inputs[2] = call.at.min_required_balance
NullifierWasUsed == MapGet(call.at.used_nullifiers, call.public_inputs[1], FALSE)
ProofTimestamp == call.public_inputs[5]
PolicyReachedFreshness == SixInputs /\ ThresholdMatches /\ ~NullifierWasUsed

\* C1: a mint whose nullifier is that of an earlier successful mint never
\* succeeds, and is refused as a replay when its six inputs carry the stored
\* threshold, whatever its timestamp and proof; no nullifier has two
\* successful mints; the nullifier of every successful mint stays marked used.
C1_ReplayRejected ==
    /\ (IsMint /\ Done /\ SixInputs /\ call.public_inputs[1] \in call.minted)
          => /\ ~result.ret.ok
             /\ ThresholdMatches => Failed(ErrReplay)
    /\ (IsMint /\ ~Done /\ pc # "idle") => call.public_inputs[1] \notin call.minted
    /\ \A n \in Nullifiers :
          Cardinality({k \in 1..Len(mints) : mints[k].nullifier = n}) <= 1
    /\ \A k \in 1..Len(mints) : MapGet(used_nullifiers, mints[k].nullifier, FALSE)

\* a fresh, well-formed resubmission of a minted nullifier was refused as a replay
C1_Witness ==
    /\ IsMint /\ Done /\ SixInputs
    /\ call.public_inputs[1] \in call.minted
    /\ ThresholdMatches
    /\ now > ProofTimestamp /\ now - ProofTimestamp <= MAX_PROOF_AGE
    /\ call.proof_data = GoodProof
    /\ Failed(ErrReplay)

\* C2: a mint that returned an error left used_nullifiers, next_token_id,
\* token_owners and token_balances (and the rest of the storage) as it found them.
C2_ErrorLeavesStorage ==
    (IsMint /\ Done /\ ~result.ret.ok) => Snapshot = call.at

\* a mint failed in sendMessage, after the pairing check had passed
C2_Witness ==
    /\ IsMint /\ Done
    /\ Failed("sendMessage failed")
    /\ result.reqs[Len(result.reqs)].pre = EC_PAIRING_PRECOMPILE
    /\ Snapshot = call.at

\* C3: the nullifier is marked used only by a mint whose four checks passed,
\* and it is marked before the gated action: it is marked while sendMessage
\* is being dispatched.
C3_MarkedBeforeGatedAction ==
    /\ (call.op # "none" /\ used_nullifiers # call.at.used_nullifiers)
          => IsMint /\ PolicyReachedFreshness /\ result.ret.ok
    /\ pc = "send_message" => MapGet(used_nullifiers, frame.nullifier, FALSE)

\* C4: a mint with six inputs whose second input differs from the stored
\* threshold is refused with the threshold error, before any backend call,
\* whatever the nullifier store, the clock and the proof; the stored threshold
\* is the one it met, changed only by a successful set_min_required_balance.
C4_ThresholdMismatchRejected ==
    /\ (IsMint /\ Done /\ SixInputs /\ ~ThresholdMatches)
          => Failed(ErrThreshold) /\ result.reqs = <<>>
    /\ (IsMint /\ ~Done /\ pc # "idle") => ThresholdMatches
    /\ call.op = "set_min_required_balance" /\ Done /\ result.ret.ok
          => min_required_balance = call.new_min_balance
    /\ (call.op # "none" /\ ~(call.op = "set_min_required_balance" /\ result.ret.ok))
          => min_required_balance = call.at.min_required_balance

\* a mint with a fresh timestamp, an unused nullifier and a well-formed proof
\* was refused for its threshold alone
C4_Witness ==
    /\ IsMint /\ Done /\ SixInputs
    /\ ~ThresholdMatches
    /\ ~NullifierWasUsed
    /\ now > ProofTimestamp /\ now - ProofTimestamp <= MAX_PROOF_AGE
    /\ call.proof_data = GoodProof
    /\ Failed(ErrThreshold)

\* C5: once the threshold and nullifier checks have passed, the mint is
\* refused as from the future exactly when the clock is behind the proof
\* timestamp; a proof stamped with the current time goes on to verification.
C5_FutureOnlyWhenClockBehind ==
    (IsMint /\ Done /\ PolicyReachedFreshness)
        => (Failed(ErrFuture) <=> now < ProofTimestamp)

\* C6: with the threshold and nullifier checks passed, an age above 300 is
\* refused as expired, an age of 1..300 passes the freshness check, a
\* timestamp ahead of the clock is refused as from the future, and the age is
\* never computed below zero.
C6_StalenessBound ==
    /\ (IsMint /\ Done /\ PolicyReachedFreshness) =>
          /\ (now > ProofTimestamp /\ now - ProofTimestamp > MAX_PROOF_AGE)
                => Failed(ErrExpired)
          /\ (now > ProofTimestamp /\ now - ProofTimestamp <= MAX_PROOF_AGE)
                => (result.ret.ok \/ result.ret.err \notin {ErrExpired, ErrFuture})
          /\ now < ProofTimestamp => Failed(ErrFuture)
    /\ (IsMint /\ ~Done /\ pc # "idle")
          => now > ProofTimestamp /\ now - ProofTimestamp <= MAX_PROOF_AGE
    /\ ~result.underflow

\* a mint with a proof exactly MAX_PROOF_AGE old succeeded
C6_Witness ==
    /\ IsMint /\ Done
    /\ now - ProofTimestamp = MAX_PROOF_AGE
    /\ result.ret.ok

\* what verify_proof returns, from its arguments, the key and the last reply
\* of the backend alone
VerifyOutcome(proof_data, public_inputs, key, reqs, reply) ==
    IF Len(proof_data) # 256 THEN Err(ErrProofLength)
    ELSE IF Len(public_inputs) + 1 # Len(key.gamma_abc_g1) THEN Err(ErrKeyCount)
    ELSE IF reqs = <<>> THEN Err("")
    ELSE LET pre == reqs[Len(reqs)].pre
         IN  IF pre = EC_MUL_PRECOMPILE
             THEN Err(IF reply.ok THEN "Invalid ecMul result length"
                      ELSE "ecMul precompile failed")
             ELSE IF pre = EC_ADD_PRECOMPILE
             THEN Err(IF reply.ok THEN "Invalid ecAdd result length"
                      ELSE "ecAdd precompile failed")
             ELSE IF ~reply.ok THEN Err("Pairing precompile failed")
             ELSE Ok(reply.data = Patch(Bytes(32, 0), 31, 1))

\* C7: verify_proof leaves the whole storage as it found it, and what it
\* returns is decided by the proof bytes, the public inputs, the key and the
\* backend's replies: not by the nullifier store, the clock or the threshold.
C7_VerifyProofReadOnly ==
    /\ IsVerify => Snapshot = call.at
    /\ (IsVerify /\ Done) =>
          result.ret = VerifyOutcome(call.proof_data, call.public_inputs, vk,
                                     result.reqs, result.reply)

\* verify_proof accepted a proof whose nullifier is used, whose threshold is
\* not the stored one and whose timestamp is ahead of the clock
C7_Witness ==
    /\ IsVerify /\ Done
    /\ Len(call.public_inputs) = 6
    /\ result.ret.ok /\ result.ret.val
    /\ MapGet(used_nullifiers, call.public_inputs[1], FALSE)
    /\ call.public_inputs[2] # min_required_balance
    /\ call.public_inputs[5] > now

\* the last reply of the backend was a failed call or had the wrong length
BackendFault ==
    /\ result.reqs # <<>>
    /\ \/ ~result.reply.ok
       \/ Len(result.reply.data) #
             (IF result.reqs[Len(result.reqs)].pre = EC_PAIRING_PRECOMPILE
              THEN 32 ELSE 64)

\* C8: every fault of the backend is returned as one of its errors, never as
\* false; so verify_proof returns false, and the mint fails as an invalid
\* proof, only after a well-formed 32-byte pairing reply not ending in 1.
C8_BackendFaultIsError ==
    /\ (Done /\ (IsMint \/ IsVerify) /\ BackendFault)
          => ~result.ret.ok /\ result.ret.err \in BackendErrors
    /\ (Done /\ IsVerify /\ result.ret.ok /\ ~result.ret.val)
          => /\ result.reply.ok
             /\ Len(result.reply.data) = 32
             /\ result.reply.data[32] # 1
    /\ (Done /\ IsMint /\ Failed(ErrInvalidProof))
          => /\ result.reply.ok
             /\ Len(result.reply.data) = 32
             /\ result.reply.data[32] # 1

\* every check the mint makes before it verifies the proof passed (a proof
\* stamped with the current time is the subject of C5 and is left out here)
PolicyPassed ==
    /\ PolicyReachedFreshness
    /\ now > ProofTimestamp
    /\ now - ProofTimestamp <= MAX_PROOF_AGE

\* C9: the mint reports the first failure in the order input count,
\* threshold, nullifier, freshness, proof parsing, Groth16 verification; no
\* backend request is made, and the proof is not parsed, unless every check
\* before verification passed.
C9_CheckOrder ==
    /\ (IsMint /\ Done) =>
          /\ ~SixInputs => Failed(ErrCount)
          /\ (SixInputs /\ ~ThresholdMatches) => Failed(ErrThreshold)
          /\ (SixInputs /\ ThresholdMatches /\ NullifierWasUsed) => Failed(ErrReplay)
          /\ (PolicyReachedFreshness /\ now < ProofTimestamp) => Failed(ErrFuture)
          /\ (PolicyReachedFreshness /\ now > ProofTimestamp
                /\ now - ProofTimestamp > MAX_PROOF_AGE) => Failed(ErrExpired)
          /\ ( \/ result.ret.ok
               \/ result.reqs # <<>>
               \/ result.ret.err \in {ErrProofLength, ErrKeyCount, ErrInvalidProof,
                                      "sendMessage failed"} \cup BackendErrors )
                => PolicyPassed
          /\ (PolicyPassed /\ Len(call.proof_data) # 256)
                => Failed(ErrProofLength) /\ result.reqs = <<>>
          /\ (PolicyPassed /\ Len(call.proof_data) = 256
                /\ Len(vk.gamma_abc_g1) # 7)
                => Failed(ErrKeyCount) /\ result.reqs = <<>>
    /\ (IsMint /\ ~Done /\ pc # "idle") => PolicyPassed

\* a mint with a wrong threshold, a used nullifier, an expired timestamp and a
\* short proof at once was refused for the threshold
C9_Witness ==
    /\ IsMint /\ Done /\ SixInputs
    /\ ~ThresholdMatches
    /\ NullifierWasUsed
    /\ now > ProofTimestamp /\ now - ProofTimestamp > MAX_PROOF_AGE
    /\ call.proof_data = ShortProof
    /\ Failed(ErrThreshold)

Zero32 == Bytes(32, 0)
Zero64 == Bytes(64, 0)

\* y-coordinates around the cases of the subtraction: 0, the prime, all ones,
\* each with one byte changed
CoordSamples ==
    { Patch(base, i, b) : base \in {Zero32, p_bytes, Bytes(32, 255)},
                          i \in {0, 30, 31},
                          b \in {0, 1, 71, 72, 253, 255} }

NegateInputs == { x \o y : x \in {Zero32, Patch(Zero32, 31, 1)}, y \in CoordSamples }

NegInit ==
    /\ Stored(constructor(1, 10))
    /\ vk = VerifyingKeyOf(7)
    /\ now = 0
    /\ pc = "idle"
    /\ frame = NoFrame
    /\ call = NoCall
    /\ result = NoResult
    /\ mints = <<>>
    /\ stale = {}
    /\ nin \in NegateInputs
    /\ nout = <<>>
    /\ nout2 = <<>>
    /\ npc = "input"

ApplyNegate ==
    /\ npc = "input"
    /\ nout' = negate_g1_point(nin)
    /\ npc' = "negated"
    /\ UNCHANGED <<nin, nout2, cvars>>

ApplyNegateAgain ==
    /\ npc = "negated"
    /\ nout2' = negate_g1_point(nout)
    /\ npc' = "twice"
    /\ UNCHANGED <<nin, nout, cvars>>

NegNext == ApplyNegate \/ ApplyNegateAgain

SpecNegate == NegInit /\ [][NegNext]_vars

\* the one point whose negation is the all-zero array
ZeroXPrimeY == Zero32 \o p_bytes

\* C10: negating twice gives the point back, for every 64-byte value
C10_InvolutionAll == npc = "twice" => nout2 = nin

\* C10 amended: negating twice gives the point back for every 64-byte value
\* other than x = 0, y = fieldPrime, whose negation is the identity
C10_InvolutionExceptPrimeY ==
    npc = "twice" =>
        /\ nin # ZeroXPrimeY => nout2 = nin
        /\ nin = ZeroXPrimeY => nout = Zero64 /\ nout2 = Zero64

\* a point with y above the prime and a borrow out of the last byte was negated twice
C10_Witness ==
    /\ npc = "twice"
    /\ nin = Patch(Zero32, 31, 1) \o Patch(Bytes(32, 255), 30, 0)
    /\ nout # nin
    /\ nout2 = nin

(***************************************************************************)
(* ec_add and ec_mul applied on their own.                                 *)
(***************************************************************************)
\* the identity, a point of small coordinates, and points with a single
\* non-zero byte: the first, the first of y, the last
PointSamples ==
    { Zero64, G1(1, 2), Patch(Zero64, 0, 1), Patch(Zero64, 32, 255), Patch(Zero64, 63, 1) }

\* zero, one, and a scalar whose only non-zero byte is the first
ScalarSamples == { Zero32, Patch(Zero32, 31, 1), Patch(Zero32, 0, 128) }

\* op(x, y): ec_add(a, b) or ec_mul(scalar, point), with the reply the
\* precompile would give
BackendInputs ==
    { [op |-> "ec_add", x |-> a, y |-> b, reply |-> reply] :
          a \in PointSamples, b \in PointSamples, reply \in G1Replies }
    \cup { [op |-> "ec_mul", x |-> scalar, y |-> point, reply |-> reply] :
          scalar \in ScalarSamples, point \in PointSamples, reply \in G1Replies }

BackendInit ==
    /\ Stored(constructor(1, 10))
    /\ vk = VerifyingKeyOf(7)
    /\ now = 0
    /\ pc = "idle"
    /\ frame = NoFrame
    /\ call = NoCall
    /\ result = NoResult
    /\ mints = <<>>
    /\ stale = {}
    /\ nin \in BackendInputs
    /\ nout = <<>>
    /\ nout2 = <<>>
    /\ npc = "input"

ApplyEcAdd ==
    /\ npc = "input"
    /\ nin.op = "ec_add"
    /\ nout' = ec_add(nin.x, nin.y, nin.reply)
    /\ npc' = "done"
    /\ UNCHANGED <<nin, nout2, cvars>>

ApplyEcMul ==
    /\ npc = "input"
    /\ nin.op = "ec_mul"
    /\ nout' = ec_mul(nin.x, nin.y, nin.reply)
    /\ npc' = "done"
    /\ UNCHANGED <<nin, nout2, cvars>>

BackendNext == ApplyEcAdd \/ ApplyEcMul

SpecBackend == BackendInit /\ [][BackendNext]_vars

\* C11: ec_add with an identity operand returns the other operand, and
\* ec_mul with a zero scalar or the identity point returns the identity,
\* without a request to the precompile; in every other case one request is
\* made: the 128 bytes a, b for ec_add, the 96 bytes point, scalar for ec_mul.
C11_ShortCircuits ==
    /\ (npc = "done" /\ nin.op = "ec_add") =>
          IF nin.x = Zero64
          THEN nout.ok /\ nout.val = nin.y /\ nout.req = <<>>
          ELSE IF nin.y = Zero64
          THEN nout.ok /\ nout.val = nin.x /\ nout.req = <<>>
          ELSE /\ Len(nout.req) = 128
               /\ nout.req = nin.x \o nin.y
               /\ nout.ok => nout.val = nin.reply.data
    /\ (npc = "done" /\ nin.op = "ec_mul") =>
          IF nin.x = Zero32 \/ nin.y = Zero64
          THEN nout.ok /\ nout.val = Zero64 /\ nout.req = <<>>
          ELSE /\ Len(nout.req) = 96
               /\ nout.req = nin.y \o nin.x
               /\ nout.ok => nout.val = nin.reply.data

\* a non-zero scalar times the identity was answered without a request
C11_Witness ==
    /\ npc = "done"
    /\ nin.op = "ec_mul"
    /\ nin.x # Zero32
    /\ nin.y = Zero64
    /\ nout.ok /\ nout.val = Zero64 /\ nout.req = <<>>

(***************************************************************************)
(* ZKProof::deserialize and VerifyingKey::deserialize applied on their own.*)
(***************************************************************************)
\* n bytes, all different from their neighbours, starting with first
Ramp(n, first) == [i \in 1..n |-> (first + i - 1) % 251]

ProofBuffers ==
    { Ramp(n, first) : n \in {0, 1, 64, 192, 255, 256, 257, 512},
                       first \in {0, 1, 100, 250} }

\* the four bytes of counts 0, 1, 2, 6, 7, 255, 256, 2^16, 2^25, 2^26 - 8,
\* 2^26 - 7, 2^26 - 1, 2^26, 2^26 + 1, 2^26 + 6, 2^31 and 2^32 - 1
CountBytes ==
    { <<0, 0, 0, 0>>, <<0, 0, 0, 1>>, <<0, 0, 0, 2>>, <<0, 0, 0, 6>>, <<0, 0, 0, 7>>,
      <<0, 0, 0, 255>>, <<0, 0, 1, 0>>, <<0, 1, 0, 0>>, <<2, 0, 0, 0>>,
      <<3, 255, 255, 248>>, <<3, 255, 255, 249>>, <<3, 255, 255, 255>>,
      <<4, 0, 0, 0>>, <<4, 0, 0, 1>>, <<4, 0, 0, 6>>, <<128, 0, 0, 0>>,
      <<255, 255, 255, 255>> }

\* n bytes with the count field, where the buffer reaches it, set to c
KeyBuffer(n, c) ==
    [i \in 1..n |-> IF i \in 449..452 THEN c[i - 448] ELSE (i - 1) % 251]

KeyLengths == {0, 451, 452, 453, 515, 516, 517, 835, 836, 837, 900}

CodecInputs ==
    { [op |-> "proof", data |-> data, build |-> [usize |-> 32, overflow_checks |-> FALSE]] :
          data \in ProofBuffers }
    \cup { [op |-> "key", data |-> KeyBuffer(n, c), build |-> build] :
          n \in KeyLengths, c \in CountBytes, build \in Builds }

CodecInit ==
    /\ Stored(constructor(1, 10))
    /\ vk = VerifyingKeyOf(7)
    /\ now = 0
    /\ pc = "idle"
    /\ frame = NoFrame
    /\ call = NoCall
    /\ result = NoResult
    /\ mints = <<>>
    /\ stale = {}
    /\ nin \in CodecInputs
    /\ nout = <<>>
    /\ nout2 = <<>>
    /\ npc = "input"

ApplyProofDeserialize ==
    /\ npc = "input"
    /\ nin.op = "proof"
    /\ nout' = ZKProof_deserialize(nin.data)
    /\ npc' = "done"
    /\ UNCHANGED <<nin, nout2, cvars>>

ApplyKeyDeserialize ==
    /\ npc = "input"
    /\ nin.op = "key"
    /\ nout' = VerifyingKey_deserialize(nin.data, nin.build)
    /\ npc' = "done"
    /\ UNCHANGED <<nin, nout2, cvars>>

CodecNext == ApplyProofDeserialize \/ ApplyKeyDeserialize

SpecCodec == CodecInit /\ [][CodecNext]_vars

\* the result is a format error: neither a value nor a panic
IsFormatError(r) == ~r.ok /\ DOMAIN r = {"ok", "err"}

\* the count field of a key buffer of at least 452 bytes, as its two halves
DeclaredHi == nin.data[449] * 256 + nin.data[450]
DeclaredLo == nin.data[451] * 256 + nin.data[452]

\* the declared points do not fit the bytes after offset 452
DeclaresTooMany ==
    DeclaredHi > 0 \/ DeclaredLo * 64 > Len(nin.data) - 452

\* C12: VerifyingKey::deserialize returns a format error, and does not panic,
\* when the buffer has fewer than 452 bytes or its count field declares more
\* points than the bytes after offset 452 hold, whatever the count and the
\* width of usize; for an exact-fit buffer of 0, 1 or 6 points it returns the
\* four fixed points and the declared points in order.
C12_KeyFormatErrors ==
    (npc = "done" /\ nin.op = "key") =>
        IF Len(nin.data) < 452 THEN IsFormatError(nout)
        ELSE IF DeclaresTooMany THEN IsFormatError(nout)
        ELSE (DeclaredLo \in {0, 1, 6} /\ Len(nin.data) = 452 + 64 * DeclaredLo) =>
                /\ nout.ok
                /\ Len(nout.val.gamma_abc_g1) = DeclaredLo
                /\ nout.val.alpha_g1 \o nout.val.beta_g2 \o nout.val.gamma_g2
                      \o nout.val.delta_g2 = SubSeq(nin.data, 1, 448)
                /\ \A k \in 1..DeclaredLo :
                      nout.val.gamma_abc_g1[k]
                          = SubSeq(nin.data, 452 + 64 * (k - 1) + 1, 452 + 64 * k)

\* C13: ZKProof::deserialize returns the length error for every input that is
\* not 256 bytes long, and for 256 bytes returns a = bytes[0:64],
\* b = bytes[64:192], c = bytes[192:256], which put together are the input.
C13_ProofLayout ==
    (npc = "done" /\ nin.op = "proof") =>
        IF Len(nin.data) # 256
        THEN IsFormatError(nout) /\ nout.err = "Invalid proof length"
        ELSE /\ nout.ok
             /\ nout.val.a = SubSeq(nin.data, 1, 64)
             /\ nout.val.b = SubSeq(nin.data, 65, 192)
             /\ nout.val.c = SubSeq(nin.data, 193, 256)
             /\ nout.val.a \o nout.val.b \o nout.val.c = nin.data

\* a 256-byte buffer was split into three different parts
C13_Witness ==
    /\ npc = "done"
    /\ nin.op = "proof"
    /\ Len(nin.data) = 256
    /\ nout.ok
    /\ nout.val.a # nout.val.c
    /\ nout.val.a \o nout.val.b \o nout.val.c = nin.data

\* the key buffers on a build whose usize is 64 bits wide (not a claim: the
\* codec is exact there)
KeyFormatErrors64 == nin.build.usize = 64 => C12_KeyFormatErrors

(***************************************************************************)
(* Properties of groth16_verify.                                           *)
(***************************************************************************)
\* the call is inside groth16_verify, past its length check
InVerifier == pc \in {"ec_mul", "ec_add", "pairing"}

\* the proof reached groth16_verify: verify_proof parsed it, and for a mint
\* every check before verification had passed
ReachedVerifier ==
    /\ Done
    /\ Len(call.proof_data) = 256
    /\ IsVerify \/ (IsMint /\ PolicyPassed)

\* C14: groth16_verify returns "Wrong number of public inputs" whenever the
\* number of inputs plus one is not the number of gamma_abc_g1 points, a key
\* without points included, and then makes no request to a precompile and
\* reads no point of the key; it goes past the check only when the lengths agree.
C14_WrongInputCount ==
    /\ (ReachedVerifier /\ Len(call.public_inputs) + 1 # Len(vk.gamma_abc_g1))
          => Failed(ErrKeyCount) /\ result.reqs = <<>>
    /\ (ReachedVerifier /\ Len(vk.gamma_abc_g1) = 0)
          => Failed(ErrKeyCount) /\ result.reqs = <<>>
    /\ (Done /\ Failed(ErrKeyCount))
          => Len(call.public_inputs) + 1 # Len(vk.gamma_abc_g1)
    /\ InVerifier => /\ Len(call.public_inputs) + 1 = Len(vk.gamma_abc_g1)
                     /\ Len(frame.scalar_inputs) = Len(call.public_inputs)

\* verify_proof with no input was refused by a key without points
C14_Witness ==
    /\ IsVerify /\ Done
    /\ call.proof_data = GoodProof
    /\ call.public_inputs = <<>>
    /\ vk.gamma_abc_g1 = <<>>
    /\ Failed(ErrKeyCount)
    /\ result.reqs = <<>>

\* a reply to ecMul or ecAdd that the backend takes as a point
GoodPointReply(reply) == reply.ok /\ Len(reply.data) = 64

\* the step appended one request of precompile pre with the given calldata
Requested(pre, calldata) ==
    /\ result'.reqs = Append(result.reqs, [pre |-> pre, len |-> Len(calldata)])
    /\ result'.calldata = calldata

\* the step ended the call with an error
Aborted == pc' = "idle" /\ result'.state = "done" /\ ~result'.ret.ok

\* entering groth16_verify past its length check
VerifierEntered ==
    (pc = "idle" /\ pc' \in {"ec_mul", "ec_add", "pairing"}) =>
        /\ frame'.i = 0
        /\ frame'.vk_x = vk.gamma_abc_g1[1]
        /\ result'.reqs = <<>>
        /\ pc' = IF Len(call'.public_inputs) = 0 THEN "pairing" ELSE "ec_mul"

\* input i: scalarMul(public_inputs[i], gamma_abc_g1[i + 1])
InputMultiplied ==
    pc = "ec_mul" =>
        LET i == frame.i
            scalar == to_be_bytes(call.public_inputs[i + 1])
            point == vk.gamma_abc_g1[i + 2]
        IN  /\ i < Len(call.public_inputs)
            /\ IF scalar = Zero32
               THEN /\ result'.reqs = result.reqs
                    /\ pc' = "ec_add"
                    /\ frame' = [frame EXCEPT !.term = Zero64]
               ELSE /\ Requested(EC_MUL_PRECOMPILE, point \o scalar)
                    /\ Len(point \o scalar) = 96
                    /\ IF GoodPointReply(result'.reply)
                       THEN /\ pc' = "ec_add"
                            /\ frame' = [frame EXCEPT !.term = result'.reply.data]
                       ELSE Aborted

\* input i: add(vk_x, term), and on to input i + 1 or to the pairing
TermAdded ==
    pc = "ec_add" =>
        LET i == frame.i
            after == IF i + 1 < Len(call.public_inputs) THEN "ec_mul" ELSE "pairing"
        IN  IF frame.term = Zero64
            THEN /\ result'.reqs = result.reqs
                 /\ pc' = after
                 /\ frame' = [frame EXCEPT !.i = i + 1]
            ELSE /\ Requested(EC_ADD_PRECOMPILE, frame.vk_x \o frame.term)
                 /\ Len(frame.vk_x \o frame.term) = 128
                 /\ IF GoodPointReply(result'.reply)
                    THEN /\ pc' = after
                         /\ frame' = [frame EXCEPT !.i = i + 1,
                                                    !.vk_x = result'.reply.data]
                    ELSE Aborted

\* the one pairing request, after the last input
PairingRequested ==
    pc = "pairing" =>
        LET a == SubSeq(call.proof_data, 1, 64)
            b == SubSeq(call.proof_data, 65, 192)
            c == SubSeq(call.proof_data, 193, 256)
            calldata == a \o b
                        \o negate_g1_point(vk.alpha_g1) \o vk.beta_g2
                        \o negate_g1_point(frame.vk_x) \o vk.gamma_g2
                        \o negate_g1_point(c) \o vk.delta_g2
        IN  /\ frame.i = Len(call.public_inputs)
            /\ \A k \in 1..Len(result.reqs) : result.reqs[k].pre # EC_PAIRING_PRECOMPILE
            /\ Requested(EC_PAIRING_PRECOMPILE, calldata)
            /\ Len(calldata) = 768
            /\ pc' \notin {"ec_mul", "ec_add", "pairing"}
            /\ ~result'.reply.ok => Aborted

\* no request is made outside groth16_verify: none after the call has ended
\* or been aborted
NoOtherRequest ==
    pc \notin {"ec_mul", "ec_add", "pairing"} =>
        result'.reqs = result.reqs \/ result'.reqs = <<>>

\* C15: groth16_verify starts from vk_x = gamma_abc_g1[0] and takes the inputs
\* in index order, input i as scalarMul(public_inputs[i], gamma_abc_g1[i+1])
\* followed by add(vk_x, term); after the last input it makes one pairing
\* request, of the 768 bytes (proof.a, proof.b), (negate(alpha_g1), beta_g2),
\* (negate(vk_x), gamma_g2), (negate(proof.c), delta_g2); a request the backend
\* fails on ends the call with an error and no request follows it.
C15_VerifyOrder ==
    [][ /\ VerifierEntered
        /\ InputMultiplied
        /\ TermAdded
        /\ PairingRequested
        /\ NoOtherRequest ]_vars

\* six inputs, the first of them zero, were verified with five requests to
\* ecMul, five to ecAdd and one pairing request, and the proof was accepted
C15_Witness ==
    /\ IsVerify /\ Done
    /\ Len(call.public_inputs) = 6
    /\ call.public_inputs[1] = 0
    /\ Len(result.reqs) = 11
    /\ \A k \in 1..5 : /\ result.reqs[2 * k - 1].pre = EC_MUL_PRECOMPILE
                         /\ result.reqs[2 * k].pre = EC_ADD_PRECOMPILE
    /\ result.reqs[11] = [pre |-> EC_PAIRING_PRECOMPILE, len |-> 768]
    /\ result.ret.ok /\ result.ret.val

(***************************************************************************)
(* Properties of negate_g1_point as a subtraction.                         *)
(***************************************************************************)
InX == SubSeq(nin, 1, 32)
InY == SubSeq(nin, 33, 64)
OutX == SubSeq(nout, 1, 32)
OutY == SubSeq(nout, 33, 64)

\* big-endian comparison of two 32-byte values: a <= b
BytesLeq(a, b) ==
    \/ a = b
    \/ \E i \in 1..32 : a[i] < b[i] /\ \A j \in 1..(i - 1) : a[j] = b[j]

\* the carry out of byte k (1 is the most significant) of the sum a + b
RECURSIVE CarryOut(_, _, _)
CarryOut(a, b, k) ==
    IF k > 32 THEN 0
    ELSE (a[k] + b[k] + CarryOut(a, b, k + 1)) \div 256

\* a + b = c as integers, for three 32-byte big-endian values
SumIs(a, b, c) ==
    /\ CarryOut(a, b, 1) = 0
    /\ \A k \in 1..32 : (a[k] + b[k] + CarryOut(a, b, k + 1)) % 256 = c[k]

\* the borrow the loop holds when it reaches Rust index i
BorrowAt(i) == NegLoop([negated |-> nin, borrow |-> 0], InY, i + 1).borrow

\* at Rust index i, p_bytes[i] - borrow is not below zero and the value cast
\* to u8 is a byte
StepInRange(i) ==
    LET p_val == p_bytes[i + 1] - BorrowAt(i)
        y_val == InY[i + 1]
    IN  /\ p_val >= 0
        /\ IF p_val >= y_val
           THEN p_val - y_val \in 0..255
           ELSE 256 + p_val - y_val \in 0..255

\* C16: for a point other than the identity whose y is at most the field
\* prime, negate_g1_point leaves x as it is and writes the big-endian bytes of
\* fieldPrime - y as the new y, no step of the byte loop going below zero or
\* above a byte; the identity is returned unchanged.
C16_NegateSubtracts ==
    npc # "input" =>
        /\ nin = Zero64 => nout = Zero64
        /\ (nin # Zero64 /\ BytesLeq(InY, p_bytes)) =>
              /\ Len(nout) = 64
              /\ OutX = InX
              /\ SumIs(OutY, InY, p_bytes)
              /\ \A i \in 0..31 : StepInRange(i)

\* y = 2^248 - 1 was subtracted from the prime with a borrow out of each of
\* the 31 low bytes
C16_Witness ==
    /\ npc = "negated"
    /\ nin = Patch(Zero32, 31, 1) \o Patch(Bytes(32, 255), 0, 0)
    /\ BytesLeq(InY, p_bytes)
    /\ \A i \in 0..30 : BorrowAt(i) = 1
    /\ OutX = InX
    /\ nout[33] = 47 /\ nout[64] = 72

(***************************************************************************)
(* Properties of the contract: interleaving, bookkeeping, freshness over   *)
(* time, and the owner's setter.                                           *)
(***************************************************************************)
\* the successful mints of nullifier n
MintsOf(n) == {k \in 1..Len(mints) : mints[k].nullifier = n}

\* a mint is between its nullifier check and its nullifier write
InWindow == IsMint /\ pc \in {"ec_mul", "ec_add", "pairing", "send_message"}

RECURSIVE BalanceSum(_)
BalanceSum(a) ==
    IF a < 0 THEN 0 ELSE MapGet(token_balances, a, 0) + BalanceSum(a - 1)

UsedCount == Cardinality({n \in Nullifiers : MapGet(used_nullifiers, n, FALSE)})

\* C18: next_token_id is one more than the number of successful mints, which
\* is the number of nullifiers marked used; the balances add up to
\* next_token_id - 1; the successful mints returned the ids 1, 2, 3, ... in
\* order, none twice.
C18_TokenBookkeeping ==
    /\ next_token_id = 1 + Len(mints)
    /\ Len(mints) = UsedCount
    /\ DOMAIN used_nullifiers \subseteq Nullifiers
    /\ DOMAIN token_balances \subseteq Addresses
    /\ BalanceSum(MaxAddr) = next_token_id - 1
    /\ \A k \in 1..Len(mints) : mints[k].token_id = k
    /\ (IsMint /\ Done /\ result.ret.ok) => result.ret.val = Len(mints)

\* two mints to the same address returned the ids 1 and 2
C18_Witness ==
    /\ Len(mints) = 2
    /\ mints[1].to = mints[2].to
    /\ mints[1].token_id = 1 /\ mints[2].token_id = 2
    /\ next_token_id = 3
    /\ MapGet(token_balances, mints[1].to, 0) = 2
    /\ UsedCount = 2

\* C19: the clock never going back, a mint whose proof timestamp was once
\* refused as expired is refused whenever it is submitted again; and a mint
\* succeeds only at a time T with ts <= T <= ts + 300.
C19_StaleStaysStale ==
    /\ (IsMint /\ SixInputs /\ ProofTimestamp \in call.stale)
          => Done /\ ~result.ret.ok
    /\ (IsMint /\ SixInputs /\ ProofTimestamp \in call.stale
          /\ PolicyReachedFreshness) => Failed(ErrExpired)
    /\ (IsMint /\ Done /\ result.ret.ok)
          => /\ ProofTimestamp <= now
             /\ now <= ProofTimestamp + MAX_PROOF_AGE
             /\ ProofTimestamp \notin stale
    /\ (IsMint /\ Done /\ Failed(ErrExpired))
          => ProofTimestamp \in stale /\ now > ProofTimestamp + MAX_PROOF_AGE
    /\ call.op # "none" => call.stale \subseteq stale

\* a timestamp refused as expired in an earlier block was submitted again in
\* a later one, with an unused nullifier and the stored threshold, and was
\* refused as expired again
C19_Witness ==
    /\ IsMint /\ Done /\ SixInputs
    /\ ProofTimestamp \in call.stale
    /\ ProofTimestamp = 0
    /\ now = 600
    /\ PolicyReachedFreshness
    /\ call.proof_data = GoodProof
    /\ Failed(ErrExpired)

IsSetMin == call.op = "set_min_required_balance"

\* C20: set_min_required_balance from an address other than the owner returns
\* its error and leaves the whole storage as it was; from the owner it
\* succeeds and changes min_required_balance alone, so the used nullifiers
\* and the minted tokens stay as they were.
C20_SetMinFrame ==
    (IsSetMin /\ Done) =>
        /\ {mints[k].nullifier : k \in 1..Len(mints)} = call.minted
        /\ IF call.caller # call.at.owner
           THEN /\ Failed("Only owner can set_min_required_balance")
                /\ Snapshot = call.at
           ELSE /\ result.ret.ok
                /\ min_required_balance = call.new_min_balance
                /\ owner = call.at.owner
                /\ used_nullifiers = call.at.used_nullifiers
                /\ next_token_id = call.at.next_token_id
                /\ token_owners = call.at.token_owners
                /\ token_balances = call.at.token_balances

\* the owner changed the threshold after a mint: the nullifier stayed used
\* and the token stayed with its holder
C20_Witness ==
    /\ IsSetMin /\ Done
    /\ call.caller = owner
    /\ result.ret.ok
    /\ call.at.min_required_balance # min_required_balance
    /\ Len(mints) = 1
    /\ MapGet(used_nullifiers, mints[1].nullifier, FALSE)
    /\ next_token_id = 2

(***************************************************************************)
(* The tokens as the view functions report them.                           *)
(***************************************************************************)
\* the ids owner_of may be asked for: 0, the ids given out, and ids past
\* next_token_id
TokenIds == 0..(next_token_id + 1)

ReturnedIds == {mints[k].token_id : k \in 1..Len(mints)}

\* every token a successful mint returned is reported as owned by the
\* recipient of that mint
MintedOwned(recipients) ==
    \A k \in 1..Len(mints) :
        mints[k].to \in recipients =>
            owner_of(Snapshot, mints[k].token_id) = Ok(mints[k].to)

\* a successful mint added exactly one to the balance of its recipient
BalanceGrewByOne ==
    (IsMint /\ Done /\ result.ret.ok) =>
        balance_of(Snapshot, call.to) = balance_of(call.at, call.to) + 1

\* an id no successful mint returned is reported as not existing
UnmintedUnknown ==
    \A id \in TokenIds \ ReturnedIds :
        owner_of(Snapshot, id) = Err("Token does not exist")

\* C21: for every token id a successful mint_with_zk_proof(to, ...) returned,
\* owner_of(id) is Ok(to) from then on and the mint added exactly 1 to
\* balance_of(to), for every recipient, the zero address included; and
\* owner_of returns "Token does not exist" for every id no successful mint
\* returned (0, and the ids from next_token_id on).
C21_OwnerOfMinted ==
    /\ MintedOwned(Addresses)
    /\ BalanceGrewByOne
    /\ UnmintedUnknown

\* What does hold: the same with the recipients other than the zero address,
\* the balance and the ids never returned as stated.
OwnerOfMintedNonZero ==
    /\ MintedOwned(Addresses \ {0})
    /\ BalanceGrewByOne
    /\ UnmintedUnknown

\* a mint to the zero address returned token 1 and counted it in the balance
\* of the zero address, and owner_of reports the token as not existing
MintedToZero ==
    /\ IsMint /\ Done /\ result.ret.ok
    /\ call.to = 0
    /\ result.ret.val = 1
    /\ balance_of(Snapshot, 0) = 1
    /\ owner_of(Snapshot, 1) = Err("Token does not exist")

\* a mint to another address: the token is reported as owned by it
MintedToHolder ==
    /\ IsMint /\ Done /\ result.ret.ok
    /\ call.to # 0
    /\ owner_of(Snapshot, result.ret.val) = Ok(call.to)
    /\ balance_of(Snapshot, call.to) = balance_of(call.at, call.to) + 1
    /\ owner_of(Snapshot, 0) = Err("Token does not exist")
    /\ owner_of(Snapshot, next_token_id) = Err("Token does not exist")
=============================================================================
